---- MODULE Spec2Model ----
(***************************************************************************)
(* A model of the IPSubnetPlanner planner (planner.go): PlanSubnets,       *)
(* planSingleNetwork, calculatePrefixFromHosts, processIPAssignments,      *)
(* createBasicSubnetEntries and calculateAvailableSpace; and of the        *)
(* command-line program (main.go): the flags, the input, the call of       *)
(* PlanSubnets, the table and the exports.  Spec is PlanSubnets called     *)
(* on a list of networks; MainSpec is main started from a command line;    *)
(* SpaceSpec is calculateAvailableSpace called on a range of its own.      *)
(*                                                                         *)
(* Numbers.  TLC's integers are 32-bit signed, Go's uint32 and int are     *)
(* not.  A quantity that can reach 2^31 (an address, a block size, a count *)
(* of addresses, a host count plus two) is a "wide" number <<hi, lo>>      *)
(* standing for hi * 2^16 + lo with 0 <= lo < 2^16.  A uint32 is a wide     *)
(* number with hi < 2^16; every uint32 operation reduces hi modulo 2^16,   *)
(* which is the wrap-around of the Go arithmetic.  Small quantities        *)
(* (prefix lengths, positions, indexes) are plain integers.                *)
(***************************************************************************)
EXTENDS Integers, Sequences, FiniteSets, TLC

Half == 2 ^ 16

\* ------------------------------------------------------------------------
\* Wide numbers and uint32 arithmetic
\* ------------------------------------------------------------------------

\* The wide number of a non-negative plain integer.
WFromInt(n) == << n \div Half, n % Half >>

WAdd(a, b) ==
    LET lo == a[2] + b[2]
    IN  << a[1] + b[1] + (lo \div Half), lo % Half >>

WLt(a, b) == a[1] < b[1] \/ (a[1] = b[1] /\ a[2] < b[2])

WLe(a, b) == a = b \/ WLt(a, b)

\* 2^n as a wide number, 0 <= n <= 46.
WPow2(n) == IF n < 16 THEN << 0, 2 ^ n >> ELSE << 2 ^ (n - 16), 0 >>

\* a - b for wide numbers a >= b.
WSub(a, b) ==
    LET lo == a[2] - b[2]
    IN  IF lo < 0 THEN << a[1] - b[1] - 1, lo + Half >>
                  ELSE << a[1] - b[1], lo >>

\* uint32(x): the low 32 bits of a wide number.
U32(w) == << w[1] % Half, w[2] >>

\* uint32(i) of a plain (possibly negative) int: two's complement.
U32FromInt(i) == << (i \div Half) % Half, i % Half >>

U32Zero == << 0, 0 >>

U32Add(a, b) == U32(WAdd(a, b))

\* a - b modulo 2^32.
U32Sub(a, b) ==
    LET lo == a[2] - b[2]
        hi == a[1] - b[1] - (IF lo < 0 THEN 1 ELSE 0)
    IN  << hi % Half, lo % Half >>

\* uint32(1 << n) for a shift count 0 <= n: a shift by 32 or more gives 0.
U32Shl1(n) == IF n >= 32 THEN U32Zero ELSE WPow2(n)

\* a % m for a uint32 a and a power of two m (m # 0).
U32ModPow2(a, m) ==
    IF m[1] = 0 THEN << 0, a[2] % m[2] >>
                ELSE << a[1] % m[1], a[2] >>

\* log2 of a power of two 1 <= m <= 2^31, as math.Log2 returns it exactly.
RECURSIVE Log2Pow2(_)
Log2Pow2(m) ==
    IF m = << 0, 1 >> THEN 0
    ELSE IF m[1] = 0 THEN 1 + Log2Pow2(<< 0, m[2] \div 2 >>)
    ELSE IF m[1] = 1 THEN 16
    ELSE 1 + Log2Pow2(<< m[1] \div 2, 0 >>)

\* ceil(log2(w)) for a wide number w >= 1: the least b with 2^b >= w.
RECURSIVE CeilLog2From(_, _)
CeilLog2From(w, b) ==
    IF WLe(w, WPow2(b)) THEN b ELSE CeilLog2From(w, b + 1)

CeilLog2(w) == CeilLog2From(w, 0)

\* ------------------------------------------------------------------------
\* Addresses, masks and CIDR literals
\* ------------------------------------------------------------------------
\* A net.IP is its tuple of bytes (4 for IPv4, 16 for IPv6), nil is << >>.
\* A string holding a CIDR literal is the record of what it spells:
\*   [form |-> "empty"]                       the empty string
\*   [form |-> "text"]                        text that is no CIDR
\*   [form |-> "cidr", ip |-> bytes, bits |-> n]   "a.b.c.d/n" or "x:y::/n"

\* uint32ToIP: the four big-endian bytes of n.
uint32ToIP(n) == << n[1] \div 256, n[1] % 256, n[2] \div 256, n[2] % 256 >>

\* ip.To4(): the 4-byte form, nil for an IPv6 address that is not v4-mapped.
To4(ip) ==
    IF Len(ip) = 4 THEN ip
    ELSE IF /\ Len(ip) = 16
            /\ \A i \in 1..10 : ip[i] = 0
            /\ ip[11] = 255 /\ ip[12] = 255
         THEN << ip[13], ip[14], ip[15], ip[16] >>
    ELSE << >>

\* binary.BigEndian.Uint32 of four bytes.
BigEndianUint32(b) == << b[1] * 256 + b[2], b[3] * 256 + b[4] >>

\* ipToUint32 of an address whose To4 is not nil (on nil the read panics).
ipToUint32(ip) == BigEndianUint32(To4(ip))

\* The number of mask bits set in byte i (1-based) of a mask of `ones` bits.
MaskBits(ones, i) ==
    LET k == ones - 8 * (i - 1)
    IN  IF k < 0 THEN 0 ELSE IF k > 8 THEN 8 ELSE k

\* net.CIDRMask(ones, 8 * n): the n mask bytes.
CIDRMask(ones, n) == [i \in 1..n |-> 256 - 2 ^ (8 - MaskBits(ones, i))]

\* A mask that leaves the address as written.
MaskIPKeepsHostBits(ip, ones) == ip

\* ip.Mask(mask): each byte ANDed with the mask's byte.
MaskIP(ip, ones) ==
    [i \in 1..Len(ip) |-> ip[i] - (ip[i] % (2 ^ (8 - MaskBits(ones, i))))]

\* net.ParseCIDR: an error unless the literal is an address, a slash and a
\* prefix length of at most the address's width; else the mask length and
\* the masked address it returns as ipNet.
ParseCIDR(s) ==
    IF s.form # "cidr" THEN [ok |-> FALSE]
    ELSE IF s.bits < 0 \/ s.bits > 8 * Len(s.ip) THEN [ok |-> FALSE]
    ELSE [ok |-> TRUE, ones |-> s.bits, ip |-> MaskIP(s.ip, s.bits)]

\* fmt.Sprintf("%s/%d", ip.String(), prefix)
CIDRString(ip, prefix) == [form |-> "cidr", ip |-> ip, bits |-> prefix]

\* ------------------------------------------------------------------------
\* Output records (SubnetResult)
\* ------------------------------------------------------------------------
\* IP is << a >> for one address and << a, b >> for the range "a - b".
\* TotalIPs is a wide number.
SubnetResult(cidr, name, vlan, label, ip, total, prefix, category) ==
    [Subnet |-> cidr, Name |-> name, VLAN |-> vlan, Label |-> label,
     IP |-> ip, TotalIPs |-> total, Prefix |-> prefix,
     Mask |-> CIDRMask(prefix, 4), Category |-> category]

\* ------------------------------------------------------------------------
\* calculatePrefixFromHosts
\* ------------------------------------------------------------------------
\* bits = ceil(log2(hosts + 2)), prefix = 32 - bits, clamped to 1..30.
\* (math.Log2 is exact on powers of two, and for hosts + 2 <= 2^31 + 1 its
\* rounding error is far below the distance to the next integer.)
\* As below, without the two reserved addresses.
calculatePrefixFromHostsNoReserve(hosts) ==
    LET bits   == CeilLog2(WFromInt(hosts))
        prefix == 32 - bits
    IN  IF prefix < 1 THEN 1
        ELSE IF prefix > 30 THEN 30
        ELSE prefix

\* As below, with a prefix below 1 clamped to 30 as well.
calculatePrefixFromHostsOneClamp(hosts) ==
    LET requiredIPs == WAdd(WFromInt(hosts), WFromInt(2))
        bits        == CeilLog2(requiredIPs)
        prefix      == 32 - bits
    IN  IF prefix < 1 \/ prefix > 30 THEN 30 ELSE prefix

calculatePrefixFromHosts(hosts) ==
    LET requiredIPs == WAdd(WFromInt(hosts), WFromInt(2))
        bits        == CeilLog2(requiredIPs)
        prefix      == 32 - bits
    IN  IF prefix < 1 THEN 1
        ELSE IF prefix > 30 THEN 30
        ELSE prefix

\* ------------------------------------------------------------------------
\* createBasicSubnetEntries
\* ------------------------------------------------------------------------
\* As below, but the usable range of a subnet of prefix below 31 runs to
\* the address before the last usable one.
createBasicSubnetEntriesShortRange(subnet, cidr, prefix) ==
    LET networkIP  == MaskIP(ParseCIDR(cidr).ip, ParseCIDR(cidr).ones)
        networkInt == ipToUint32(networkIP)
        totalIPs   == WPow2(32 - prefix)
        Entry(label, ip, total, category) ==
            SubnetResult(cidr, subnet.Name, subnet.VLAN, label, ip, total,
                         prefix, category)
        network    == Entry("Network", << networkIP >>, WFromInt(1), "Network")
    IN  IF prefix < 31 THEN
            << network,
               Entry("Available Range",
                     << uint32ToIP(U32Add(networkInt, WFromInt(1))),
                        uint32ToIP(U32Sub(U32Add(networkInt, U32(totalIPs)),
                                          WFromInt(3))) >>,
                     WSub(totalIPs, WFromInt(2)), "Available"),
               Entry("Broadcast",
                     << uint32ToIP(U32Sub(U32Add(networkInt, U32(totalIPs)),
                                          WFromInt(1))) >>,
                     WFromInt(1), "Broadcast") >>
        ELSE IF prefix = 31 THEN
            << network,
               Entry("Available Range",
                     << networkIP, uint32ToIP(U32Add(networkInt, WFromInt(1))) >>,
                     WFromInt(2), "Available") >>
        ELSE
            << network,
               Entry("Available", << networkIP >>, WFromInt(1), "Available") >>

createBasicSubnetEntries(subnet, cidr, prefix) ==
    LET networkIP  == MaskIP(ParseCIDR(cidr).ip, ParseCIDR(cidr).ones)
        networkInt == ipToUint32(networkIP)
        totalIPs   == WPow2(32 - prefix)
        Entry(label, ip, total, category) ==
            SubnetResult(cidr, subnet.Name, subnet.VLAN, label, ip, total,
                         prefix, category)
        network    == Entry("Network", << networkIP >>, WFromInt(1), "Network")
    IN  IF prefix < 31 THEN
            LET firstUsable == uint32ToIP(U32Add(networkInt, WFromInt(1)))
                lastUsable  == uint32ToIP(U32Sub(U32Add(networkInt, U32(totalIPs)),
                                                 WFromInt(2)))
                usableCount == WSub(totalIPs, WFromInt(2))
                broadcastIP == uint32ToIP(U32Sub(U32Add(networkInt, U32(totalIPs)),
                                                 WFromInt(1)))
            IN  << network,
                   IF usableCount = WFromInt(1)
                   THEN Entry("Available", << firstUsable >>, usableCount,
                              "Available")
                   ELSE Entry("Available Range", << firstUsable, lastUsable >>,
                              usableCount, "Available"),
                   Entry("Broadcast", << broadcastIP >>, WFromInt(1), "Broadcast") >>
        ELSE IF prefix = 31 THEN
            << network,
               Entry("Available Range",
                     << networkIP, uint32ToIP(U32Add(networkInt, WFromInt(1))) >>,
                     WFromInt(2), "Available") >>
        ELSE
            << network,
               Entry("Available", << networkIP >>, WFromInt(1), "Available") >>

\* ------------------------------------------------------------------------
\* calculateAvailableSpace
\* ------------------------------------------------------------------------
\* The inner loop (lines 358-364): doubles blockSize while the double fits
\* and current is aligned to it.  blockSize*2 is a uint32 product: the double
\* of 2^31 is 0, 0 <= maxBlockSize holds, and current % 0 is an integer
\* division by zero, a run-time panic.
\* As below, but doubling whenever the double fits, aligned or not.
RECURSIVE GrowBlockUnaligned(_, _, _)
GrowBlockUnaligned(current, maxBlockSize, blockSize) ==
    LET double == U32Add(blockSize, blockSize)
    IN  IF ~WLe(double, maxBlockSize) THEN [panic |-> FALSE, size |-> blockSize]
        ELSE IF double = U32Zero THEN [panic |-> TRUE, size |-> blockSize]
        ELSE GrowBlockUnaligned(current, maxBlockSize, double)

RECURSIVE GrowBlock(_, _, _)
GrowBlock(current, maxBlockSize, blockSize) ==
    IF ~(WLe(blockSize, maxBlockSize) /\ U32ModPow2(current, blockSize) = U32Zero)
    THEN [panic |-> FALSE, size |-> blockSize]
    ELSE LET double == U32Add(blockSize, blockSize)
         IN  IF ~WLe(double, maxBlockSize)
             THEN [panic |-> FALSE, size |-> blockSize]
             ELSE IF double = U32Zero
             THEN [panic |-> TRUE, size |-> blockSize]
             ELSE IF U32ModPow2(current, double) = U32Zero
             THEN GrowBlock(current, maxBlockSize, double)
             ELSE [panic |-> FALSE, size |-> blockSize]

\* The record of one block (lines 366-413).  blockSize is a power of two
\* from 1 to 2^30, so the prefix is 2..32 and the guards of lines 368 and
\* 377 (prefix > 32, usableCount < 0) never apply.
AvailableBlock(current, blockSize) ==
    LET prefix      == 32 - Log2Pow2(blockSize)
        usableCount == IF prefix < 31 THEN WSub(blockSize, WFromInt(2))
                                      ELSE blockSize
        startIP     == uint32ToIP(current)
        endIP       == uint32ToIP(U32Sub(U32Add(current, blockSize), WFromInt(1)))
        firstUsable == uint32ToIP(U32Add(current, WFromInt(1)))
        lastUsable  == uint32ToIP(U32Sub(U32Add(current, blockSize), WFromInt(2)))
        label       == IF blockSize = WFromInt(1) THEN "Available"
                                                  ELSE "Available Range"
        ip          == IF blockSize = WFromInt(1) THEN << startIP >>
                       ELSE IF prefix < 31 THEN << firstUsable, lastUsable >>
                       ELSE << startIP, endIP >>
    IN  SubnetResult(CIDRString(startIP, prefix), "Available", 0, label, ip,
                     usableCount, prefix, "Available")

\* The outer loop (lines 348-417), from `current` with `results` so far.
RECURSIVE AvailableLoop(_, _, _)
AvailableLoop(current, end, results) ==
    IF ~WLt(current, end) THEN [panic |-> FALSE, results |-> results]
    ELSE LET remainingSize == U32Sub(end, current)
             block         == GrowBlock(current, remainingSize, WFromInt(1))
         IN  IF block.panic THEN [panic |-> TRUE, results |-> << >>]
             ELSE AvailableLoop(U32Add(current, block.size), end,
                                Append(results, AvailableBlock(current, block.size)))

calculateAvailableSpace(start, end, parentPrefix) ==
    AvailableLoop(start, end, << >>)

\* ------------------------------------------------------------------------
\* sort.Slice
\* ------------------------------------------------------------------------
\* sort.Slice(x, less) is pdqsort_func(data, 0, len(x), limit) of the Go
\* library (Go 1.19 and later).  On up to 12 elements that is an insertion
\* sort: element i moves left while less(it, its left neighbour).  On 13
\* elements it is one round of pdqsort: a pivot is chosen, the slice is
\* returned as it is if it is already in order, else it is partitioned
\* around the pivot and the two sides, of at most 12 elements each, are
\* insertion-sorted.  Lists of this model have at most maxInsertion + 1
\* elements.
maxInsertion == 12

\* less of line 69: requirements[i].size > requirements[j].size
SizeLess(a, b) == WLt(b.size, a.size)

RECURSIVE InsertBySize(_, _)
InsertBySize(sorted, x) ==
    IF sorted = << >> THEN << x >>
    ELSE IF SizeLess(x, sorted[Len(sorted)])
    THEN Append(InsertBySize(SubSeq(sorted, 1, Len(sorted) - 1), x),
                sorted[Len(sorted)])
    ELSE Append(sorted, x)

\* insertionSort_func
RECURSIVE InsertionSortBySize(_)
InsertionSortBySize(reqs) ==
    IF reqs = << >> THEN << >>
    ELSE InsertBySize(InsertionSortBySize(SubSeq(reqs, 1, Len(reqs) - 1)),
                      reqs[Len(reqs)])

\* data.Swap(i, j), indices from 1.
Swap(s, i, j) == [s EXCEPT ![i] = s[j], ![j] = s[i]]

\* order2_func: the indices a, b in order, and whether they were swapped.
order2(s, a, b) ==
    IF SizeLess(s[b], s[a]) THEN [x |-> b, y |-> a, swaps |-> 1]
                            ELSE [x |-> a, y |-> b, swaps |-> 0]

\* median_func: the index of the median of s[a], s[b], s[c].
median(s, a, b, c) ==
    LET o1 == order2(s, a, b)
        o2 == order2(s, o1.y, c)
        o3 == order2(s, o1.x, o2.x)
    IN  [pivot |-> o3.y, swaps |-> o1.swaps + o2.swaps + o3.swaps]

\* choosePivot_func on the whole slice, of 8 to 49 elements: the median of
\* the elements at l/4, 2(l/4), 3(l/4) (counted from 0), and the number of
\* swaps that took; no swap is the "increasing" hint.
choosePivot(s) ==
    LET q == Len(s) \div 4
    IN  median(s, 1 + q, 1 + q * 2, 1 + q * 3)

\* partialInsertionSort_func on fewer than 50 elements: true if the slice
\* is in order, else false with nothing moved.
partialInsertionSort(s) ==
    \A i \in 2..Len(s) : ~SizeLess(s[i], s[i - 1])

\* partition_func's scans; the pivot is at index 1.
RECURSIVE ScanUp(_, _, _)
ScanUp(s, i, j) ==
    IF i <= j /\ SizeLess(s[i], s[1]) THEN ScanUp(s, i + 1, j) ELSE i

RECURSIVE ScanDown(_, _, _)
ScanDown(s, i, j) ==
    IF i <= j /\ ~SizeLess(s[j], s[1]) THEN ScanDown(s, i, j - 1) ELSE j

RECURSIVE PartitionLoop(_, _, _)
PartitionLoop(s, i, j) ==
    LET i2 == ScanUp(s, i, j)
        j2 == ScanDown(s, i2, j)
    IN  IF i2 > j2 THEN [s |-> s, j |-> j2]
        ELSE PartitionLoop(Swap(s, i2, j2), i2 + 1, j2 - 1)

\* partition_func on the whole slice: the slice partitioned, and the
\* pivot's new index.
partition(data, pivot) ==
    LET s == Swap(data, 1, pivot)
        i == ScanUp(s, 2, Len(s))
        j == ScanDown(s, i, Len(s))
    IN  IF i > j THEN [s |-> Swap(s, j, 1), mid |-> j]
        ELSE LET r == PartitionLoop(Swap(s, i, j), i + 1, j - 1)
             IN  [s |-> Swap(r.s, r.j, 1), mid |-> r.j]

\* pdqsort_func on maxInsertion + 1 elements.
pdqsort(s) ==
    LET chosen == choosePivot(s)
    IN  IF chosen.swaps = 0 /\ partialInsertionSort(s) THEN s
        ELSE LET p == partition(s, chosen.pivot)
             IN  InsertionSortBySize(SubSeq(p.s, 1, p.mid - 1))
                 \o << p.s[p.mid] >>
                 \o InsertionSortBySize(SubSeq(p.s, p.mid + 1, Len(s)))

\* A sort that leaves the list as it is.
SortBySizeKeepsInput(reqs) == reqs

SortBySize(reqs) ==
    IF Len(reqs) <= maxInsertion THEN InsertionSortBySize(reqs) ELSE pdqsort(reqs)

\* less of line 199: IPAssignments[i].Position < IPAssignments[j].Position
\* (assignment lists of this model have at most maxInsertion elements)
PositionLess(a, b) == a.Position < b.Position

RECURSIVE InsertByPosition(_, _)
InsertByPosition(sorted, x) ==
    IF sorted = << >> THEN << x >>
    ELSE IF PositionLess(x, sorted[Len(sorted)])
    THEN Append(InsertByPosition(SubSeq(sorted, 1, Len(sorted) - 1), x),
                sorted[Len(sorted)])
    ELSE Append(sorted, x)

\* The list left in the order given.
SortByPositionKeepsInput(as) == as

RECURSIVE SortByPosition(_)
SortByPosition(as) ==
    IF as = << >> THEN << >>
    ELSE InsertByPosition(SortByPosition(SubSeq(as, 1, Len(as) - 1)), as[Len(as)])

\* ------------------------------------------------------------------------
\* processIPAssignments
\* ------------------------------------------------------------------------
\* The address a position resolves to (lines 209-224), as a uint32 (the
\* record shows uint32ToIP of it; networkIP where the code uses that);
\* total is uint32(totalIPs).
\* As below, but a negative position counts from the end of the range
\* whatever the prefix.
AssignedIntFromEnd(networkInt, total, prefix, position) ==
    IF position < 0 THEN
        IF prefix = 32 THEN networkInt
        ELSE U32Add(U32Add(networkInt, total), U32FromInt(position))
    ELSE IF position = 0 THEN networkInt
    ELSE U32Add(networkInt, U32FromInt(position))

AssignedInt(networkInt, total, prefix, position) ==
    IF position < 0 THEN
        IF prefix = 32 THEN networkInt
        ELSE IF prefix = 31
        THEN U32Add(U32Add(networkInt, total), U32FromInt(position))
        ELSE U32Add(U32Sub(U32Add(networkInt, total), WFromInt(1)),
                    U32FromInt(position))
    ELSE IF position = 0 THEN networkInt
    ELSE U32Add(networkInt, U32FromInt(position))

\* The address marked used for a position (lines 254-264): as above but
\* without the /32 case, which the enclosing prefix < 31 excludes.
UsedInt(networkInt, total, prefix, position) ==
    IF position < 0 THEN
        IF prefix = 31
        THEN U32Add(U32Add(networkInt, total), U32FromInt(position))
        ELSE U32Add(U32Sub(U32Add(networkInt, total), WFromInt(1)),
                    U32FromInt(position))
    ELSE IF position = 0 THEN networkInt
    ELSE U32Add(networkInt, U32FromInt(position))

addUnusedRange(subnet, cidr, prefix, networkInt, start, end) ==
    LET startIP == uint32ToIP(U32Add(networkInt, U32FromInt(start)))
        endIP   == uint32ToIP(U32Add(networkInt, U32FromInt(end)))
        count   == end - start + 1
    IN  SubnetResult(cidr, subnet.Name, subnet.VLAN,
                     IF count = 1 THEN "Unused" ELSE "Unused Range",
                     IF count = 1 THEN << startIP >> ELSE << startIP, endIP >>,
                     WFromInt(count), prefix, "Unused")

\* One iteration of the scan of lines 276-289, at offset i: st holds the
\* open run's start (-1: none) and the records so far; c the loop's
\* constants.
ScanStep(c, i, st) ==
    IF U32Add(c.networkInt, U32FromInt(i)) \notin c.usedIPs THEN
        [rangeStart |-> IF st.rangeStart = -1 THEN i ELSE st.rangeStart,
         results    |-> st.results]
    ELSE IF st.rangeStart # -1 THEN
        [rangeStart |-> -1,
         results    |-> Append(st.results,
                               addUnusedRange(c.subnet, c.cidr, c.prefix,
                                              c.networkInt, st.rangeStart, i - 1))]
    ELSE st

\* The iterations lo..hi in order (split in halves to bound the nesting).
RECURSIVE ScanLoop(_, _, _, _)
ScanLoop(c, lo, hi, st) ==
    IF lo > hi THEN st
    ELSE IF lo = hi THEN ScanStep(c, lo, st)
    ELSE LET mid  == (lo + hi) \div 2
             left == ScanLoop(c, lo, mid, st)
         \* (rangeStart is always >= -1: the test only has the first half
         \* evaluated before the second starts)
         IN  IF left.rangeStart >= -1 THEN ScanLoop(c, mid + 1, hi, left)
                                      ELSE left

\* As below, but without the final run of lines 292-294.
ScanUnusedNoFinalRun(c, results) ==
    ScanLoop(c, 1, c.totalIPs - 2, [rangeStart |-> -1, results |-> results]).results

\* Lines 275-294: the loop for i = 1 .. totalIPs-2, then the final run.
ScanUnused(c, results) ==
    LET st == ScanLoop(c, 1, c.totalIPs - 2, [rangeStart |-> -1, results |-> results])
    IN  IF st.rangeStart # -1
        THEN Append(st.results,
                    addUnusedRange(c.subnet, c.cidr, c.prefix, c.networkInt,
                                   st.rangeStart, c.totalIPs - 2))
        ELSE st.results

\* The records of a subnet with assignments.  `subnet.IPAssignments` is the
\* list after the sort of line 198.  The scan counts offsets in a plain
\* int, so a subnet given assignments has prefix >= 2 in this model.
processIPAssignments(subnet, cidr, prefix) ==
    LET networkIP  == MaskIP(ParseCIDR(cidr).ip, ParseCIDR(cidr).ones)
        networkInt == ipToUint32(networkIP)
        total      == U32(WPow2(32 - prefix))
        as         == subnet.IPAssignments
        Entry(label, ip, category) ==
            SubnetResult(cidr, subnet.Name, subnet.VLAN, label, ip, WFromInt(1),
                         prefix, category)
        network    == Entry("Network", << networkIP >>, "Network")
        assigned   == [k \in 1..Len(as) |->
                          Entry(as[k].Name,
                                << uint32ToIP(AssignedInt(networkInt, total, prefix,
                                                          as[k].Position)) >>,
                                "Assignment")]
    IN  IF prefix < 31 THEN
            LET broadcastInt == U32Sub(U32Add(networkInt, total), WFromInt(1))
                usedIPs == {networkInt, broadcastInt}
                           \cup {UsedInt(networkInt, total, prefix, as[k].Position) :
                                    k \in 1..Len(as)}
                c == [subnet |-> subnet, cidr |-> cidr, prefix |-> prefix,
                      networkInt |-> networkInt, usedIPs |-> usedIPs,
                      totalIPs |-> 2 ^ (32 - prefix)]
            IN  Append(ScanUnused(c, << network >> \o assigned),
                       Entry("Broadcast", << uint32ToIP(broadcastInt) >>, "Broadcast"))
        ELSE << network >> \o assigned

\* ------------------------------------------------------------------------
\* State
\* ------------------------------------------------------------------------
VARIABLES
    networks,      \* PlanSubnets' argument: the caller's []Network
    netIdx,        \* PlanSubnets' loop index (1-based)
    allResults,    \* PlanSubnets' accumulator
    pc,            \* where control is: "loop", "resolve", "allocate",
                   \* "planned" (planSingleNetwork has returned), "done"
                   \* (PlanSubnets has returned), "panic" (the run crashed);
                   \* in main also "main", "input", "exportjson",
                   \* "exportcsv", "exportmd" and "exit"; in a call of
                   \* calculateAvailableSpace on its own "space" and
                   \* "returned"
    parentPrefix,  \* planSingleNetwork's locals
    networkInt,
    requirements,
    reqIdx,        \* the index of planSingleNetwork's current loop
    results,
    currentIP,
    planErr,       \* planSingleNetwork's returned error
    calls,         \* what each planSingleNetwork call returned, in order
    returned,      \* PlanSubnets' returned records
    err,           \* PlanSubnets' returned error
    args,          \* main: the command line's flags and the named file
    finalOut,      \* main: finalInputFile and the final*Output paths
    out,           \* main: what has been printed and exported, in order
    exitCode,      \* main: the process's exit status (-1 while it runs)
    start,         \* calculateAvailableSpace called on its own: its
    end,           \* arguments start and end, and its cursor `current`
    current        \* (its `results` is the variable above)

\* main's part of the state.
cli == << args, finalOut, out, exitCode >>

\* The part of a call of calculateAvailableSpace on its own.
space == << start, end, current >>

vars == << networks, netIdx, allResults, pc, parentPrefix, networkInt,
           requirements, reqIdx, results, currentIP, planErr, calls,
           returned, err, args, finalOut, out, exitCode, start, end, current >>

NoError == [kind |-> "nil"]

\* ------------------------------------------------------------------------
\* Inputs
\* ------------------------------------------------------------------------
MaxSubnets  == 3
MaxHosts    == 1030
MaxNetworks == 2

Lit4(a, b, c, d, n) == [form |-> "cidr", ip |-> << a, b, c, d >>, bits |-> n]

\* "2001:db8::/32"
Lit6 == [form |-> "cidr",
         ip |-> << 32, 1, 13, 184, 0, 0, 0, 0, 0, 0, 0, 0, 0, 0, 0, 0 >>,
         bits |-> 32]

Shape(hosts, cidr, as) == [Hosts |-> hosts, CIDR |-> cidr, IPAssignments |-> as]

Assign(name, position) == [Name |-> name, Position |-> position]

\* The subnet list whose i-th request has the i-th shape.
SubnetsOf(shapes) ==
    [i \in 1..Len(shapes) |->
        [Name |-> "s" \o ToString(i), VLAN |-> 100 + i,
         Hosts |-> shapes[i].Hosts, CIDR |-> shapes[i].CIDR,
         IPAssignments |-> shapes[i].IPAssignments]]

NetworkOf(lit, shapes) == [Network |-> lit, Subnets |-> SubnetsOf(shapes)]

\* Request shapes that lists of up to MaxSubnets requests are made of.
CoreShapes ==
    { Shape(0, 25, << >>), Shape(0, 26, << >>), Shape(50, 0, << >>),
      Shape(5, 0, << >>), Shape(0, 32, << >>), Shape(0, 0, << >>) }

\* Request shapes tried alone.
EdgeShapes ==
    { Shape(0, 16, << >>), Shape(0, 33, << >>), Shape(10, 0, << >>),
      Shape(50, 28, << >>), Shape(-1, 0, << >>), Shape(7, -1, << >>),
      Shape(0, 31, << >>), Shape(0, 24, << >>), Shape(2147483647, 0, << >>),
      Shape(0, 28, << Assign("Server1", 10), Assign("Gateway", 1),
                      Assign("Server2", 11) >>),
      Shape(0, 26, << Assign("Last", -4) >>),
      Shape(0, 30, << Assign("Far", -4), Assign("Gw", 1) >>),
      Shape(0, 31, << Assign("B", -1), Assign("A", 0) >>),
      Shape(0, 32, << Assign("Lo", 0), Assign("Lo1", 1) >>) }

\* Parents given lists of core shapes.
MainParents ==
    { Lit4(192, 168, 1, 0, 24), Lit4(255, 255, 255, 0, 24),
      Lit4(192, 168, 1, 0, 28) }

\* Parents given at most one request.
EdgeParents ==
    MainParents \cup
    { Lit4(192, 168, 1, 0, 29), Lit4(192, 168, 1, 77, 24),
      Lit4(10, 60, 48, 128, 26), Lit4(0, 0, 0, 0, 0), Lit4(0, 0, 0, 0, 1),
      Lit4(128, 0, 0, 0, 1), Lit4(1, 2, 3, 4, 33), Lit6,
      [form |-> "empty"], [form |-> "text"] }

SeqsUpTo(S, n) == UNION { [1..k -> S] : k \in 0..n }

SingleNetworks ==
    { NetworkOf(lit, shapes) :
        lit \in MainParents, shapes \in SeqsUpTo(CoreShapes, MaxSubnets) }
    \cup
    { NetworkOf(lit, shapes) :
        lit \in EdgeParents, shapes \in SeqsUpTo(CoreShapes \cup EdgeShapes, 1) }
    \cup
    { NetworkOf(Lit4(10, 0, 0, 0, 8), << Shape(h, 0, << >>) >>) : h \in 1..MaxHosts }

\* Networks that batches of two or more are made of.
BatchNetworks ==
    { NetworkOf(Lit4(192, 168, 1, 0, 24), << Shape(0, 28, << >>), Shape(0, 27, << >>) >>),
      NetworkOf(Lit4(10, 50, 1, 0, 24), << Shape(0, 27, << >>) >>),
      NetworkOf(Lit4(192, 168, 1, 0, 29), << Shape(10, 0, << >>) >>),
      NetworkOf([form |-> "text"], << Shape(10, 0, << >>) >>) }

\* The rearrangements of a list.
Rearrangements(s) ==
    { [i \in 1..Len(s) |-> s[f[i]]] :
        f \in { g \in [1..Len(s) -> 1..Len(s)] :
                   \A i, j \in 1..Len(s) : i # j => g[i] # g[j] } }

\* Request shapes that rearranged lists are made of: two shapes of one
\* block size (a /26) and a smaller one.
PermShapes == { Shape(0, 26, << >>), Shape(50, 0, << >>), Shape(5, 0, << >>) }

\* Batches of one parent given a request list and then a rearrangement of it.
PermutedBatches ==
    UNION { { << n, [n EXCEPT !.Subnets = other] >> :
                other \in Rearrangements(n.Subnets) \ { n.Subnets } } :
            n \in { NetworkOf(lit, shapes) :
                      lit \in { Lit4(192, 168, 1, 0, 24), Lit4(255, 255, 255, 0, 24) },
                      shapes \in SeqsUpTo(PermShapes, MaxSubnets) } }

\* Batches of one request list under a parent written with host bits set
\* and then under the same parent written as its network address.
HostBitsBatches ==
    { << NetworkOf(pair[1], shapes), NetworkOf(pair[2], shapes) >> :
        pair \in { << Lit4(192, 168, 1, 77, 24), Lit4(192, 168, 1, 0, 24) >>,
                   << Lit4(10, 60, 48, 187, 26), Lit4(10, 60, 48, 128, 26) >> },
        shapes \in SeqsUpTo(PermShapes, MaxSubnets)
                   \cup { << Shape(0, 28, << Assign("Last", -2), Assign("Gw", 1) >>) >> } }

\* Lists of maxInsertion + 1 requests under 10.0.0.0/16: twelve /26 and
\* then a /25; four /25 and then nine /26 (in order as given); and /26,
\* /25, /27 in turn.
LongLists ==
    { [i \in 1..(maxInsertion + 1) |->
          Shape(0, IF i = maxInsertion + 1 THEN 25 ELSE 26, << >>)],
      [i \in 1..(maxInsertion + 1) |-> Shape(0, IF i < 5 THEN 25 ELSE 26, << >>)],
      [i \in 1..(maxInsertion + 1) |-> Shape(0, 27 - (i % 3), << >>)] }

Inputs ==
    { << n >> : n \in SingleNetworks }
    \cup { ns \in SeqsUpTo(BatchNetworks, MaxNetworks) : Len(ns) # 1 }
    \cup PermutedBatches
    \cup HostBitsBatches
    \cup { << NetworkOf(Lit4(10, 0, 0, 0, 16), shapes) >> : shapes \in LongLists }

\* ------------------------------------------------------------------------
\* The command line
\* ------------------------------------------------------------------------
\* A string flag on the command line: not given, given bare (no value
\* follows it, or the next argument starts with "-"), or given a value
\* ("-flag v" or "-flag=v"; the value may be the empty string).
Unset    == [form |-> "unset"]
BareFlag == [form |-> "bare"]
Set(v)   == [form |-> "value", value |-> v]

\* What flag.String's pointer holds after flag.Parse.
FlagValue(f, default) == IF f.form = "value" THEN f.value ELSE default

\* A -hosts or -cidr spec is the list of its comma-separated segments:
\*   [form |-> "pair", value |-> v, count |-> c]   "v:c"
\*   [form |-> "blank"]                            nothing but spaces
\*   [form |-> "malformed"]                        not two ":"-separated parts
\*   [form |-> "badnumber"], [form |-> "badcount"] a part that is no number
\* and the empty string is the empty list.
Pair(v, c) == [form |-> "pair", value |-> v, count |-> c]

\* A command line: the flags, and what the named configuration file holds
\* ([form |-> "unreadable"], [form |-> "garbage"], a JSON array of networks
\* or a single network object).
CommandLine(in, ej, ec, em, lj, lc, lm) ==
    [input |-> in.input, f |-> in.f, file |-> in.file,
     network |-> in.network, hosts |-> in.hosts, cidr |-> in.cidr,
     version |-> in.version,
     exportjson |-> ej, exportcsv |-> ec, exportmd |-> em,
     json |-> lj, csv |-> lc, md |-> lm]

FromFile(content) ==
    [input |-> Set("config.json"), f |-> Unset, file |-> content,
     network |-> Unset, hosts |-> << >>, cidr |-> << >>, version |-> FALSE]

ArrayFile(ns) == [form |-> "array", networks |-> ns]

\* The ways the input is named, other than -input with a JSON array.
OtherSources ==
    { [FromFile([form |-> "unreadable"]) EXCEPT !.f = Set("old.json")],
      FromFile([form |-> "garbage"]),
      [FromFile([form |-> "single",
                 network |-> NetworkOf(Lit4(192, 168, 1, 0, 24),
                                       << Shape(50, 0, << >>) >>)]) EXCEPT
          !.input = Unset, !.f = Set("old.json")],
      [FromFile(ArrayFile(<< >>)) EXCEPT !.version = TRUE],
      [FromFile(ArrayFile(<< >>)) EXCEPT !.input = Unset] }
    \cup
    { [FromFile(ArrayFile(<< >>)) EXCEPT
          !.input = Unset, !.network = Set(Lit4(192, 168, 1, 0, 24)),
          !.hosts = h, !.cidr = c] :
        h \in { << >>, << Pair(50, 2), [form |-> "blank"], Pair(10, 1) >>,
                << [form |-> "malformed"] >>, << [form |-> "badnumber"] >>,
                << Pair(0, 1) >> },
        c \in { << >>, << Pair(26, 1) >>, << [form |-> "badcount"] >>,
                << Pair(28, 0) >> } }

\* How an export flag is given: not at all, with the empty string, or with
\* a file name.
Given(how, name) ==
    IF how = "unset" THEN Unset ELSE IF how = "empty" THEN Set("") ELSE Set(name)

Hows == { "unset", "empty", "named" }

\* File contents the export flags are tried with: a plan that succeeds and
\* one whose second parent fails.
ExportedFiles ==
    { ArrayFile(<< NetworkOf(Lit4(10, 50, 1, 0, 24), << Shape(0, 27, << >>) >>) >>),
      ArrayFile(<< NetworkOf(Lit4(10, 50, 1, 0, 24), << Shape(0, 27, << >>) >>),
                   NetworkOf(Lit4(192, 168, 1, 0, 29), << Shape(10, 0, << >>) >>) >>) }

CommandLines ==
    { CommandLine(FromFile(ArrayFile(ns)), Unset, Unset, Unset, Unset, Unset, Unset) :
        ns \in SeqsUpTo(BatchNetworks, MaxNetworks) }
    \cup
    { CommandLine(src, Unset, Unset, Unset, Unset, Unset, Unset) : src \in OtherSources }
    \cup
    { CommandLine(FromFile(file),
                  Given(new, "out.json"), Given(new, "out.csv"), Given(newmd, "report.md"),
                  Given(old, "old.json"), Given(old, "old.csv"), Given(oldmd, "design.md")) :
        file \in ExportedFiles, new \in Hows, old \in Hows,
        newmd \in Hows, oldmd \in Hows }
    \cup
    { [CommandLine(FromFile(ArrayFile(<< >>)), Unset, Unset, Unset, Unset, Unset, Unset)
          EXCEPT ![k] = BareFlag] :
        k \in { "exportjson", "exportcsv", "exportmd", "json", "csv", "md" } }

\* PlanSubnets called directly (as the tests call it), with no command line.
DirectCall == [form |-> "direct"]

Init ==
    /\ networks \in Inputs
    /\ args = DirectCall
    /\ finalOut = [input |-> "", json |-> "", csv |-> "", md |-> ""]
    /\ out = << >>
    /\ exitCode = -1
    /\ netIdx = 1
    /\ allResults = << >>
    /\ pc = "loop"
    /\ parentPrefix = 0
    /\ networkInt = U32Zero
    /\ requirements = << >>
    /\ reqIdx = 1
    /\ results = << >>
    /\ currentIP = U32Zero
    /\ planErr = NoError
    /\ calls = << >>
    /\ returned = << >>
    /\ err = NoError
    /\ start = U32Zero
    /\ end = U32Zero
    /\ current = U32Zero

\* ------------------------------------------------------------------------
\* planSingleNetwork
\* ------------------------------------------------------------------------
network == networks[netIdx]

\* planSingleNetwork returns (nil, e).
Fail(e) ==
    /\ planErr' = e
    /\ results' = << >>
    /\ pc' = "planned"

\* Lines 15-16 and 26-39: PlanSubnets calls planSingleNetwork on the next
\* network, which parses the parent.  ipToUint32 of an address that has no
\* 4-byte form reads four bytes of a nil slice: a run-time panic.
ParseNetwork ==
    /\ pc = "loop"
    /\ netIdx <= Len(networks)
    /\ IF network.Network.form = "empty" THEN
            /\ Fail([kind |-> "missing_network"])
            /\ UNCHANGED << parentPrefix, networkInt, requirements, reqIdx >>
       ELSE IF ~ParseCIDR(network.Network).ok THEN
            /\ Fail([kind |-> "invalid_cidr", network |-> network.Network])
            /\ UNCHANGED << parentPrefix, networkInt, requirements, reqIdx >>
       ELSE LET ipNet     == ParseCIDR(network.Network)
                networkIP == MaskIP(ipNet.ip, ipNet.ones)
            IN  IF To4(networkIP) = << >> THEN
                    /\ pc' = "panic"
                    /\ parentPrefix' = ipNet.ones
                    /\ UNCHANGED << networkInt, requirements, reqIdx, results,
                                    planErr >>
                ELSE
                    /\ parentPrefix' = ipNet.ones
                    /\ networkInt' = ipToUint32(networkIP)
                    /\ requirements' = << >>
                    /\ reqIdx' = 1
                    /\ pc' = "resolve"
                    /\ UNCHANGED << results, planErr >>
    /\ UNCHANGED << networks, netIdx, allResults, currentIP, calls, returned, err >>
    /\ UNCHANGED << cli, space >>

\* The sizing choice with the host count preferred to the prefix.
ResolvePrefixHostsFirst(subnet) ==
    IF subnet.Hosts > 0
    THEN [ok |-> TRUE, prefix |-> calculatePrefixFromHosts(subnet.Hosts)]
    ELSE IF subnet.CIDR > 0 THEN [ok |-> TRUE, prefix |-> subnet.CIDR]
    ELSE [ok |-> FALSE]

\* Lines 50-57: the sizing choice for one request.
ResolvePrefix(subnet) ==
    IF subnet.CIDR > 0 THEN [ok |-> TRUE, prefix |-> subnet.CIDR]
    ELSE IF subnet.Hosts > 0
    THEN [ok |-> TRUE, prefix |-> calculatePrefixFromHosts(subnet.Hosts)]
    ELSE [ok |-> FALSE]

\* The test with a parent-sized request rejected too.
InvalidPrefixStrict(prefix, parent) == prefix <= parent \/ prefix > 32

\* Line 59: the test that rejects a prefix.
InvalidPrefix(prefix, parent) == prefix < parent \/ prefix > 32

\* Lines 49-65: one iteration of the sizing loop.
ResolveRequest ==
    /\ pc = "resolve"
    /\ reqIdx <= Len(network.Subnets)
    /\ LET subnet   == network.Subnets[reqIdx]
           resolved == ResolvePrefix(subnet)
       IN  IF ~resolved.ok THEN
                /\ Fail([kind |-> "missing_size", subnet |-> subnet.Name])
                /\ UNCHANGED << requirements, reqIdx >>
           ELSE IF InvalidPrefix(resolved.prefix, parentPrefix) THEN
                /\ Fail([kind |-> "invalid_prefix", subnet |-> subnet.Name,
                         prefix |-> resolved.prefix, parent |-> parentPrefix])
                /\ UNCHANGED << requirements, reqIdx >>
           ELSE
                /\ requirements' =
                      Append(requirements,
                             [subnet |-> subnet, src |-> reqIdx,
                              prefix |-> resolved.prefix,
                              size |-> U32Shl1(32 - resolved.prefix)])
                /\ reqIdx' = reqIdx + 1
                /\ UNCHANGED << results, planErr, pc >>
    /\ UNCHANGED << networks, netIdx, allResults, parentPrefix, networkInt,
                    currentIP, calls, returned, err >>
    /\ UNCHANGED << cli, space >>

\* Lines 67-74: the sort, and the start of the allocation loop.
SortRequirements ==
    /\ pc = "resolve"
    /\ reqIdx > Len(network.Subnets)
    /\ requirements' = SortBySize(requirements)
    /\ results' = << >>
    /\ currentIP' = networkInt
    /\ reqIdx' = 1
    /\ pc' = "allocate"
    /\ UNCHANGED << networks, netIdx, allResults, parentPrefix, networkInt,
                    planErr, calls, returned, err >>
    /\ UNCHANGED << cli, space >>

\* Lines 76-91: one iteration of the allocation loop.  req.subnet's
\* IPAssignments slice shares its array with the caller's subnet (src), so
\* the sort inside processIPAssignments (line 198) sorts the caller's list.
Allocate ==
    /\ pc = "allocate"
    /\ reqIdx <= Len(requirements)
    /\ LET req        == requirements[reqIdx]
           subnetIP   == uint32ToIP(currentIP)
           subnetCIDR == CIDRString(subnetIP, req.prefix)
           sorted     == SortByPosition(req.subnet.IPAssignments)
       IN  /\ IF Len(req.subnet.IPAssignments) > 0 THEN
                  /\ results' = results \o
                        processIPAssignments(
                            [req.subnet EXCEPT !.IPAssignments = sorted],
                            subnetCIDR, req.prefix)
                  /\ networks' = [networks EXCEPT
                        ![netIdx].Subnets[req.src].IPAssignments = sorted]
              ELSE
                  /\ results' = results \o
                        createBasicSubnetEntries(req.subnet, subnetCIDR, req.prefix)
                  /\ UNCHANGED networks
           /\ currentIP' = U32Add(currentIP, req.size)
    /\ reqIdx' = reqIdx + 1
    /\ UNCHANGED << netIdx, allResults, pc, parentPrefix, networkInt,
                    requirements, planErr, calls, returned, err >>
    /\ UNCHANGED << cli, space >>

\* Lines 93-101: the leftover space, and the return.
AvailableSpace ==
    /\ pc = "allocate"
    /\ reqIdx > Len(requirements)
    /\ LET parentSize == U32Shl1(32 - parentPrefix)
           parentEnd  == U32Add(networkInt, parentSize)
           available  == calculateAvailableSpace(currentIP, parentEnd, parentPrefix)
       IN  IF WLt(currentIP, parentEnd) THEN
               IF available.panic THEN
                   /\ pc' = "panic"
                   /\ UNCHANGED << results, planErr >>
               ELSE
                   /\ results' = results \o available.results
                   /\ planErr' = NoError
                   /\ pc' = "planned"
           ELSE
               /\ planErr' = NoError
               /\ pc' = "planned"
               /\ UNCHANGED results
    /\ UNCHANGED << networks, netIdx, allResults, parentPrefix, networkInt,
                    requirements, reqIdx, currentIP, calls, returned, err >>
    /\ UNCHANGED << cli, space >>

\* ------------------------------------------------------------------------
\* PlanSubnets
\* ------------------------------------------------------------------------
\* As below, but an error returns the records collected so far.
PlanSubnetsCollectKeepsPartial ==
    /\ pc = "planned"
    /\ calls' = Append(calls, [results |-> results, err |-> planErr])
    /\ IF planErr # NoError THEN
            /\ returned' = allResults
            /\ err' = [kind |-> "planning", network |-> network.Network,
                       cause |-> planErr]
            /\ pc' = "done"
            /\ UNCHANGED << allResults, netIdx >>
       ELSE
            /\ allResults' = allResults \o results
            /\ netIdx' = netIdx + 1
            /\ pc' = "loop"
            /\ UNCHANGED << returned, err >>
    /\ UNCHANGED << networks, parentPrefix, networkInt, requirements, reqIdx,
                    results, currentIP, planErr >>
    /\ UNCHANGED << cli, space >>

\* Lines 17-20: planSingleNetwork has returned.
PlanSubnetsCollect ==
    /\ pc = "planned"
    /\ calls' = Append(calls, [results |-> results, err |-> planErr])
    /\ IF planErr # NoError THEN
            /\ returned' = << >>
            /\ err' = [kind |-> "planning", network |-> network.Network,
                       cause |-> planErr]
            /\ pc' = "done"
            /\ UNCHANGED << allResults, netIdx >>
       ELSE
            /\ allResults' = allResults \o results
            /\ netIdx' = netIdx + 1
            /\ pc' = "loop"
            /\ UNCHANGED << returned, err >>
    /\ UNCHANGED << networks, parentPrefix, networkInt, requirements, reqIdx,
                    results, currentIP, planErr >>
    /\ UNCHANGED << cli, space >>

\* Line 23: the loop is over.
PlanSubnetsReturn ==
    /\ pc = "loop"
    /\ netIdx > Len(networks)
    /\ returned' = allResults
    /\ err' = NoError
    /\ pc' = "done"
    /\ UNCHANGED << networks, netIdx, allResults, parentPrefix, networkInt,
                    requirements, reqIdx, results, currentIP, planErr, calls >>
    /\ UNCHANGED << cli, space >>

Next ==
    \/ ParseNetwork
    \/ ResolveRequest
    \/ SortRequirements
    \/ Allocate
    \/ AvailableSpace
    \/ PlanSubnetsCollect
    \/ PlanSubnetsReturn

Spec == Init /\ [][Next]_vars

\* ------------------------------------------------------------------------
\* main
\* ------------------------------------------------------------------------
\* fatal: the message on stderr, then os.Exit(1).
fatal(msg) ==
    /\ out' = Append(out, [ev |-> "stderr", msg |-> msg])
    /\ exitCode' = 1
    /\ pc' = "exit"

\* The subnets one "value:count" segment stands for.
SpecSubnets(seg, isHosts) ==
    [i \in 1..seg.count |->
        [Name |-> (IF isHosts THEN "hosts-" ELSE "cidr-")
                     \o ToString(seg.value) \o "-" \o ToString(i),
         VLAN |-> 0,
         Hosts |-> IF isHosts THEN seg.value ELSE 0,
         CIDR |-> IF isHosts THEN 0 ELSE seg.value,
         IPAssignments |-> << >>]]

\* parseSpecs' loop over the segments, with the subnets so far.
RECURSIVE ParseSegments(_, _, _)
ParseSegments(parts, isHosts, subnets) ==
    IF parts = << >> THEN [ok |-> TRUE, subnets |-> subnets]
    ELSE LET p == Head(parts)
         IN  IF p.form = "blank" THEN ParseSegments(Tail(parts), isHosts, subnets)
             ELSE IF p.form = "malformed"
             THEN [ok |-> FALSE, msg |-> "invalid spec segment"]
             ELSE IF p.form = "badnumber"
             THEN [ok |-> FALSE, msg |-> "invalid number in spec"]
             ELSE IF p.form = "badcount"
             THEN [ok |-> FALSE, msg |-> "invalid count in spec"]
             ELSE IF p.value <= 0 \/ p.count <= 0
             THEN [ok |-> FALSE, msg |-> "value and count must be >0"]
             ELSE ParseSegments(Tail(parts), isHosts,
                                subnets \o SpecSubnets(p, isHosts))

parseSpecs(spec, isHosts) == ParseSegments(spec, isHosts, << >>)

\* Lines 106-116: the JSON and CSV paths, new flag first, then the legacy one.
PreferNew(new, legacy) ==
    IF new # "" THEN new ELSE IF legacy # "" THEN legacy ELSE ""

\* Lines 118-124: the Markdown path.  exportMD is the -exportmd flag, whose
\* default is "plan.md".
ResolveMarkdown(exportMD, mdOutput) ==
    IF exportMD # "" THEN exportMD
    ELSE IF mdOutput # "" THEN mdOutput
    ELSE "plan.md"

OutputFlags == { "exportjson", "exportcsv", "exportmd", "json", "csv", "md" }

\* Lines 59-129: validateBareOutputFlags, flag.Parse, the final paths and
\* -version.
MainFlags ==
    /\ pc = "main"
    /\ IF \E k \in OutputFlags : args[k] = BareFlag THEN
            /\ out' = Append(out, [ev |-> "stderr", msg |-> "requires a filename"])
            /\ exitCode' = 2
            /\ pc' = "exit"
            /\ UNCHANGED finalOut
       ELSE
            /\ finalOut' =
                  [input |-> PreferNew(FlagValue(args.input, ""), FlagValue(args.f, "")),
                   json  |-> PreferNew(FlagValue(args.exportjson, ""),
                                       FlagValue(args.json, "")),
                   csv   |-> PreferNew(FlagValue(args.exportcsv, ""),
                                       FlagValue(args.csv, "")),
                   md    |-> ResolveMarkdown(FlagValue(args.exportmd, "plan.md"),
                                             FlagValue(args.md, ""))]
            /\ IF args.version THEN
                    /\ out' = Append(out, [ev |-> "version"])
                    /\ exitCode' = 0
                    /\ pc' = "exit"
               ELSE
                    /\ pc' = "input"
                    /\ UNCHANGED << out, exitCode >>
    /\ UNCHANGED << networks, netIdx, allResults, parentPrefix, networkInt,
                    requirements, reqIdx, results, currentIP, planErr, calls,
                    returned, err, args >>
    /\ UNCHANGED space

\* Lines 131-177: the networks, from the file or from the flags, and the
\* call of PlanSubnets.
MainInput ==
    /\ pc = "input"
    /\ IF finalOut.input # "" THEN
            IF args.file.form = "unreadable" THEN
                fatal("error reading config file") /\ UNCHANGED networks
            ELSE IF args.file.form = "array" THEN
                /\ networks' = args.file.networks
                /\ pc' = "loop"
                /\ UNCHANGED << out, exitCode >>
            ELSE IF args.file.form = "single" THEN
                /\ networks' = << args.file.network >>
                /\ pc' = "loop"
                /\ UNCHANGED << out, exitCode >>
            ELSE
                fatal("error parsing config file") /\ UNCHANGED networks
       ELSE IF FlagValue(args.network, [form |-> "empty"]).form # "empty" THEN
            LET hostSubs == parseSpecs(args.hosts, TRUE)
                cidrSubs == parseSpecs(args.cidr, FALSE)
            IN  IF ~hostSubs.ok THEN fatal(hostSubs.msg) /\ UNCHANGED networks
                ELSE IF ~cidrSubs.ok THEN fatal(cidrSubs.msg) /\ UNCHANGED networks
                ELSE IF hostSubs.subnets = << >> /\ cidrSubs.subnets = << >> THEN
                    fatal("provide at least one -hosts or -cidr spec")
                    /\ UNCHANGED networks
                ELSE
                    /\ networks' = << [Network |-> args.network.value,
                                       Subnets |-> hostSubs.subnets \o cidrSubs.subnets] >>
                    /\ pc' = "loop"
                    /\ UNCHANGED << out, exitCode >>
       ELSE
            fatal("either -input or -network must be provided") /\ UNCHANGED networks
    /\ UNCHANGED << netIdx, allResults, parentPrefix, networkInt, requirements,
                    reqIdx, results, currentIP, planErr, calls, returned, err,
                    args, finalOut >>
    /\ UNCHANGED space

\* As below, but the table is printed before the error is looked at.
MainPlannedTableFirst ==
    /\ pc = "done"
    /\ IF err # NoError THEN
            /\ out' = out \o << [ev |-> "table"],
                                [ev |-> "stderr", msg |-> "planning error"] >>
            /\ exitCode' = 1
            /\ pc' = "exit"
       ELSE
            /\ out' = Append(out, [ev |-> "table"])
            /\ pc' = "exportjson"
            /\ UNCHANGED exitCode
    /\ UNCHANGED << networks, netIdx, allResults, parentPrefix, networkInt,
                    requirements, reqIdx, results, currentIP, planErr, calls,
                    returned, err, args, finalOut >>
    /\ UNCHANGED space

\* Lines 177-182: PlanSubnets has returned; the error, or the table.
MainPlanned ==
    /\ pc = "done"
    /\ IF err # NoError THEN
            fatal("planning error")
       ELSE
            /\ out' = Append(out, [ev |-> "table"])
            /\ pc' = "exportjson"
            /\ UNCHANGED exitCode
    /\ UNCHANGED << networks, netIdx, allResults, parentPrefix, networkInt,
                    requirements, reqIdx, results, currentIP, planErr, calls,
                    returned, err, args, finalOut >>
    /\ UNCHANGED space

\* One export block (lines 185-192, 193-200, 201-208): skipped when the
\* path is empty; else the file is written, or the write fails and the
\* error goes to stderr.
Export(format, path) ==
    IF path # "" THEN
        \E written \in BOOLEAN :
            out' = Append(out, [ev |-> "export", format |-> format,
                                path |-> path, written |-> written])
    ELSE UNCHANGED out

MainExportJSON ==
    /\ pc = "exportjson"
    /\ Export("json", finalOut.json)
    /\ pc' = "exportcsv"
    /\ UNCHANGED << networks, netIdx, allResults, parentPrefix, networkInt,
                    requirements, reqIdx, results, currentIP, planErr, calls,
                    returned, err, args, finalOut, exitCode >>
    /\ UNCHANGED space

MainExportCSV ==
    /\ pc = "exportcsv"
    /\ Export("csv", finalOut.csv)
    /\ pc' = "exportmd"
    /\ UNCHANGED << networks, netIdx, allResults, parentPrefix, networkInt,
                    requirements, reqIdx, results, currentIP, planErr, calls,
                    returned, err, args, finalOut, exitCode >>
    /\ UNCHANGED space

\* Lines 201-209: the Markdown export, and main returns.
MainExportMarkdown ==
    /\ pc = "exportmd"
    /\ Export("md", finalOut.md)
    /\ pc' = "exit"
    /\ exitCode' = 0
    /\ UNCHANGED << networks, netIdx, allResults, parentPrefix, networkInt,
                    requirements, reqIdx, results, currentIP, planErr, calls,
                    returned, err, args, finalOut >>
    /\ UNCHANGED space

\* The program started from its command line.
MainInit ==
    /\ args \in CommandLines
    /\ networks = << >>
    /\ pc = "main"
    /\ finalOut = [input |-> "", json |-> "", csv |-> "", md |-> ""]
    /\ out = << >>
    /\ exitCode = -1
    /\ netIdx = 1
    /\ allResults = << >>
    /\ parentPrefix = 0
    /\ networkInt = U32Zero
    /\ requirements = << >>
    /\ reqIdx = 1
    /\ results = << >>
    /\ currentIP = U32Zero
    /\ planErr = NoError
    /\ calls = << >>
    /\ returned = << >>
    /\ err = NoError
    /\ start = U32Zero
    /\ end = U32Zero
    /\ current = U32Zero

MainNext ==
    \/ MainFlags
    \/ MainInput
    \/ ParseNetwork
    \/ ResolveRequest
    \/ SortRequirements
    \/ Allocate
    \/ AvailableSpace
    \/ PlanSubnetsCollect
    \/ PlanSubnetsReturn
    \/ MainPlanned
    \/ MainExportJSON
    \/ MainExportCSV
    \/ MainExportMarkdown

MainSpec == MainInit /\ [][MainNext]_vars

\* ------------------------------------------------------------------------
\* calculateAvailableSpace called on its own
\* ------------------------------------------------------------------------
\* The function run one iteration of its outer loop at a time, on arguments
\* start < end drawn from runs of MaxSpan addresses above a few bases (the
\* bottom of the address space, a private network, just below 2^31 and just
\* below 2^32) and from ranges of 2^30 addresses or more.
MaxSpan == 12

SpaceBases ==
    { U32Zero, ipToUint32(<< 192, 168, 1, 0 >>),
      WSub(WPow2(31), WFromInt(8)), WSub(WPow2(32), WFromInt(16)) }

SpaceCalls ==
    { << U32Add(b, WFromInt(s)), U32Add(b, WFromInt(e)) >> :
        b \in SpaceBases, s \in 0..MaxSpan, e \in 1..MaxSpan }
    \cup
    { << U32Zero, WPow2(31) >>,
      << U32Zero, WSub(WPow2(32), WFromInt(1)) >>,
      << U32Zero, WSub(WPow2(31), WFromInt(1)) >>,
      << WFromInt(1), WSub(WPow2(32), WFromInt(1)) >>,
      << WPow2(31), WSub(WPow2(32), WFromInt(1)) >>,
      << WPow2(30), WAdd(WPow2(31), WPow2(30)) >>,
      << WPow2(30), WPow2(31) >> }

SpaceInit ==
    /\ \E call \in SpaceCalls :
          /\ WLt(call[1], call[2])
          /\ start = call[1]
          /\ end = call[2]
    /\ current = start
    /\ results = << >>
    /\ pc = "space"
    /\ networks = << >>
    /\ args = DirectCall
    /\ finalOut = [input |-> "", json |-> "", csv |-> "", md |-> ""]
    /\ out = << >>
    /\ exitCode = -1
    /\ netIdx = 1
    /\ allResults = << >>
    /\ parentPrefix = 0
    /\ networkInt = U32Zero
    /\ requirements = << >>
    /\ reqIdx = 1
    /\ currentIP = U32Zero
    /\ planErr = NoError
    /\ calls = << >>
    /\ returned = << >>
    /\ err = NoError

\* Lines 349-416: one iteration of the outer loop that completes.
SpaceIterate ==
    /\ pc = "space"
    /\ WLt(current, end)
    /\ LET block == GrowBlock(current, U32Sub(end, current), WFromInt(1))
       IN  /\ ~block.panic
           /\ results' = Append(results, AvailableBlock(current, block.size))
           /\ current' = U32Add(current, block.size)
    /\ UNCHANGED << networks, netIdx, allResults, pc, parentPrefix, networkInt,
                    requirements, reqIdx, currentIP, planErr, calls, returned,
                    err, start, end >>
    /\ UNCHANGED cli

\* Line 359: an iteration whose inner loop divides by zero.
SpaceFault ==
    /\ pc = "space"
    /\ WLt(current, end)
    /\ GrowBlock(current, U32Sub(end, current), WFromInt(1)).panic
    /\ pc' = "panic"
    /\ UNCHANGED << networks, netIdx, allResults, parentPrefix, networkInt,
                    requirements, reqIdx, results, currentIP, planErr, calls,
                    returned, err >>
    /\ UNCHANGED << cli, space >>

\* Lines 349 and 419: the loop's exit and the return.
SpaceReturn ==
    /\ pc = "space"
    /\ ~WLt(current, end)
    /\ pc' = "returned"
    /\ UNCHANGED << networks, netIdx, allResults, parentPrefix, networkInt,
                    requirements, reqIdx, results, currentIP, planErr, calls,
                    returned, err >>
    /\ UNCHANGED << cli, space >>

SpaceNext == SpaceIterate \/ SpaceFault \/ SpaceReturn

SpaceSpec == SpaceInit /\ [][SpaceNext]_vars

\* ------------------------------------------------------------------------
\* Properties
\* ------------------------------------------------------------------------
RECURSIVE WSum(_)
WSum(ws) == IF ws = << >> THEN WFromInt(0)
            ELSE WAdd(ws[1], WSum(SubSeq(ws, 2, Len(ws))))

\* planSingleNetwork has returned without error.
Planned == pc = "planned" /\ planErr = NoError

\* The parent's range [ParentBase, ParentEnd) in unbounded arithmetic.
ParentBase == networkInt
ParentSize == WPow2(32 - parentPrefix)
ParentEnd  == WAdd(ParentBase, ParentSize)

\* The sum of the requests' block sizes 2^(32-prefix).
RequestedSize ==
    WSum([k \in 1..Len(requirements) |-> WPow2(32 - requirements[k].prefix)])

\* The address block a record belongs to: its CIDR's address and size.
BlockBase(r) == ipToUint32(r.Subnet.ip)
BlockEnd(r)  == WAdd(BlockBase(r), WPow2(32 - r.Prefix))

\* The records that stand for a placed subnet (its Network record) and for
\* a leftover block (a record of calculateAvailableSpace).
PlacedIdx   == {i \in 1..Len(results) : results[i].Category = "Network"}
LeftoverIdx == {i \in 1..Len(results) :
                   results[i].Category = "Available" /\ results[i].Name = "Available"}

InsideParent(r) == WLe(ParentBase, BlockBase(r)) /\ WLe(BlockEnd(r), ParentEnd)

Disjoint(r1, r2) == WLe(BlockEnd(r1), BlockBase(r2)) \/ WLe(BlockEnd(r2), BlockBase(r1))

RECURSIVE SizeOfBlocks(_)
SizeOfBlocks(I) ==
    IF I = {} THEN WFromInt(0)
    ELSE LET i == CHOOSE j \in I : TRUE
         IN  WAdd(WPow2(32 - results[i].Prefix), SizeOfBlocks(I \ {i}))

\* C1: when planSingleNetwork accepts a parent and a request list whose
\* block sizes sum to at most the parent's size, the placed subnets and the
\* leftover blocks of calculateAvailableSpace cover the parent's range
\* exactly: all inside it, pairwise disjoint, their sizes adding up to it.
C1_ExactCover ==
    (Planned /\ WLe(RequestedSize, ParentSize)) =>
        LET I == PlacedIdx \cup LeftoverIdx
        IN  /\ \A i \in I : InsideParent(results[i])
            /\ \A i, j \in I : i # j => Disjoint(results[i], results[j])
            /\ SizeOfBlocks(I) = ParentSize

\* The sum of the block sizes of the subnets placed so far: how far the
\* cursor is from the parent's base, in unbounded arithmetic.
PlacedSize ==
    WSum([k \in 1..(reqIdx - 1) |-> WPow2(32 - requirements[k].prefix)])

\* C2: planSingleNetwork returns an error whenever the requests' block
\* sizes sum to more than the parent's address space, and the cursor never
\* passes the parent's end address.
C2_CapacityChecked ==
    /\ Planned => WLe(RequestedSize, ParentSize)
    /\ pc = "allocate" => WLe(PlacedSize, ParentSize)

\* C3: when planSingleNetwork returns without error, every placed subnet
\* lies inside the parent, no two placed subnets overlap, and they appear
\* in ascending base-address order.
C3_PlacedInsideDisjointAscending ==
    Planned =>
        /\ \A i \in PlacedIdx : InsideParent(results[i])
        /\ \A i, j \in PlacedIdx : i # j => Disjoint(results[i], results[j])
        /\ \A i, j \in PlacedIdx :
              i < j => WLt(BlockBase(results[i]), BlockBase(results[j]))

\* C4: at every placement the cursor is a multiple of the block size of
\* the subnet placed there, and the CIDR built from the cursor is already
\* a network address: masking it (as the re-parse does) changes nothing;
\* the same holds of every placed subnet's recorded CIDR.
C4_CursorAligned ==
    /\ (pc = "allocate" /\ reqIdx <= Len(requirements)) =>
          LET req == requirements[reqIdx]
          IN  /\ U32ModPow2(currentIP, req.size) = U32Zero
              /\ MaskIP(uint32ToIP(currentIP), req.prefix) = uint32ToIP(currentIP)
    /\ pc \in {"allocate", "planned"} =>
          \A i \in PlacedIdx :
              /\ MaskIP(results[i].Subnet.ip, results[i].Subnet.bits)
                    = results[i].Subnet.ip
              /\ U32ModPow2(BlockBase(results[i]), U32Shl1(32 - results[i].Prefix))
                    = U32Zero

\* A placement after an earlier, larger one, away from the parent's base.
C4_Witness ==
    /\ pc = "allocate" /\ reqIdx > 1 /\ reqIdx <= Len(requirements)
    /\ WLt(requirements[reqIdx].size, requirements[reqIdx - 1].size)
    /\ currentIP # networkInt
    /\ \E k \in 1..Len(network.Subnets) - 1 :
          network.Subnets[k].CIDR = 0 /\ network.Subnets[k].Hosts = 5
          /\ network.Subnets[k + 1].CIDR = 25

\* The largest prefix p in 0..32 with 2^(32-p) >= h + 2.
LargestPrefixFor(h) ==
    LET need == WAdd(WFromInt(h), WFromInt(2))
    IN  CHOOSE p \in 0..32 :
            /\ WLe(need, WPow2(32 - p))
            /\ \A q \in (p + 1)..32 : ~WLe(need, WPow2(32 - q))

Clamp(p, lo, hi) == IF p < lo THEN lo ELSE IF p > hi THEN hi ELSE p

\* The prefixes the tests and the README give for these host counts.
HostExamples ==
    (1 :> 30) @@ (2 :> 30) @@ (5 :> 29) @@ (30 :> 27) @@ (254 :> 24) @@ (1022 :> 22)

\* The prefix planSingleNetwork derived for the host-count request it has
\* just sized: the accepted one, or the one named in the error.
DerivedPrefixes ==
    {<< requirements[k].subnet.Hosts, requirements[k].prefix >> :
        k \in {j \in 1..Len(requirements) : requirements[j].subnet.CIDR <= 0}}
    \cup
    (IF pc = "planned" /\ planErr.kind = "invalid_prefix"
        /\ network.Subnets[reqIdx].CIDR <= 0
     THEN {<< network.Subnets[reqIdx].Hosts, planErr.prefix >>} ELSE {})

\* C5: the prefix derived from a host count h > 0 is the largest p with
\* 2^(32-p) >= h + 2, clamped into 1..30: never /31 or /32, and the
\* documented examples come out as documented.
C5_PrefixFromHosts ==
    \A hp \in DerivedPrefixes :
        /\ hp[1] > 0
        /\ hp[2] = Clamp(LargestPrefixFor(hp[1]), 1, 30)
        /\ hp[2] \in 1..30
        /\ hp[1] \in DOMAIN HostExamples => hp[2] = HostExamples[hp[1]]

\* The request for 1022 hosts has been sized, as a /22.
C5_Witness ==
    /\ << 1022, 22 >> \in DerivedPrefixes
    /\ pc = "planned"

\* C6: the Available record of an accepted host-count request without
\* assignments reports at least as many addresses as the hosts asked for.
C6_HoldsRequestedHosts ==
    Planned =>
        \A k \in 1..Len(requirements) :
            LET subnet == requirements[k].subnet
            IN  (subnet.CIDR <= 0 /\ subnet.IPAssignments = << >>) =>
                    \A i \in 1..Len(results) :
                        (results[i].Name = subnet.Name
                         /\ results[i].Category = "Available")
                            => WLe(WFromInt(subnet.Hosts), results[i].TotalIPs)

\* The prefix a request asks for, read off the request: the explicit one
\* if positive, else the one for its host count.
AskedPrefix(subnet) ==
    IF subnet.CIDR > 0 THEN subnet.CIDR
    ELSE Clamp(LargestPrefixFor(subnet.Hosts), 1, 30)

HasSize(subnet) == subnet.CIDR > 0 \/ subnet.Hosts > 0

\* C7: a request whose prefix (explicit or derived) is below the parent's
\* or above 32 makes planSingleNetwork fail with no records; a prefix in
\* parentPrefix..32 is never the reason of that failure.
C7_InvalidPrefixRejected ==
    /\ \A k \in 1..Len(requirements) :
          requirements[k].prefix \in parentPrefix..32
    /\ (pc = "allocate" \/ Planned) =>
          \A k \in 1..Len(network.Subnets) :
              AskedPrefix(network.Subnets[k]) \in parentPrefix..32
    /\ (pc = "planned" /\ planErr.kind = "invalid_prefix") =>
          /\ results = << >>
          /\ HasSize(network.Subnets[reqIdx])
          /\ AskedPrefix(network.Subnets[reqIdx]) \notin parentPrefix..32
          /\ planErr.prefix = AskedPrefix(network.Subnets[reqIdx])
    /\ (pc = "done" /\ err # NoError) => returned = << >>

\* A derived prefix rejected: hosts 10 under a /29 parent.
C7_Witness ==
    /\ pc = "planned" /\ planErr.kind = "invalid_prefix"
    /\ parentPrefix = 29
    /\ network.Subnets[reqIdx].Hosts = 10 /\ network.Subnets[reqIdx].CIDR = 0

\* C8: each accepted request is sized by its explicit prefix if that is
\* positive, whatever its host count, and else by its positive host count;
\* a request with neither makes planSingleNetwork fail with no records,
\* and nothing else does so for that reason.
C8_SizingChoice ==
    /\ \A k \in 1..Len(requirements) :
          LET subnet == requirements[k].subnet
          IN  IF subnet.CIDR > 0 THEN requirements[k].prefix = subnet.CIDR
              ELSE /\ subnet.Hosts > 0
                   /\ requirements[k].prefix
                         = Clamp(LargestPrefixFor(subnet.Hosts), 1, 30)
    /\ (pc = "allocate" \/ Planned) =>
          \A k \in 1..Len(network.Subnets) : HasSize(network.Subnets[k])
    /\ (pc = "planned" /\ planErr.kind = "missing_size") =>
          /\ results = << >>
          /\ ~HasSize(network.Subnets[reqIdx])
    /\ (pc = "planned" /\ planErr.kind = "invalid_prefix") =>
          HasSize(network.Subnets[reqIdx])

\* A request with both a prefix and a host count, sized by the prefix.
C8_Witness ==
    /\ Planned
    /\ \E k \in 1..Len(requirements) :
          /\ requirements[k].subnet.CIDR = 28
          /\ requirements[k].subnet.Hosts = 50
          /\ requirements[k].prefix = 28

RECURSIVE ConcatResults(_)
ConcatResults(cs) ==
    IF cs = << >> THEN << >>
    ELSE cs[1].results \o ConcatResults(SubSeq(cs, 2, Len(cs)))

\* C9: PlanSubnets returns the parents' record lists concatenated in input
\* order when every parent plans without error; at the first parent that
\* fails it stops, plans no later parent, returns no records and an error
\* carrying that parent's network string.
C9_PlanSubnets ==
    pc = "done" =>
        IF err = NoError THEN
            /\ Len(calls) = Len(networks)
            /\ \A k \in 1..Len(calls) : calls[k].err = NoError
            /\ returned = ConcatResults(calls)
        ELSE
            LET k == Len(calls)
            IN  /\ k \in 1..Len(networks)
                /\ netIdx = k
                /\ calls[k].err # NoError
                /\ \A j \in 1..(k - 1) : calls[j].err = NoError
                /\ returned = << >>
                /\ err.kind = "planning"
                /\ err.network = networks[k].Network
                /\ err.cause = calls[k].err

\* The second parent fails after the first produced records.
C9_Witness ==
    /\ pc = "done" /\ err # NoError
    /\ Len(calls) = 2
    /\ calls[1].results # << >>
    /\ returned = << >>

\* A network string that is empty or no IPv4 CIDR literal.
NotIPv4CIDR(lit) ==
    \/ lit.form # "cidr"
    \/ Len(lit.ip) # 4
    \/ lit.bits \notin 0..32

\* C10: for a parent string that is empty or not a valid IPv4 CIDR literal
\* planSingleNetwork returns an error and no records: it neither crashes
\* nor goes on to plan.
C10_BadNetworkIsAnError ==
    (netIdx <= Len(networks) /\ NotIPv4CIDR(network.Network)) =>
        /\ pc \in {"loop", "planned", "done"}
        /\ pc = "planned" => (planErr # NoError /\ results = << >>)

\* The (base address, prefix) placements among a call's records, and its
\* leftover records.
PlacementsOf(rs) ==
    { << rs[i].Subnet.ip, rs[i].Prefix >> :
        i \in { k \in 1..Len(rs) : rs[k].Category = "Network" } }

LeftoversOf(rs) ==
    { rs[i] : i \in { k \in 1..Len(rs) :
                        rs[k].Category = "Available" /\ rs[k].Name = "Available" } }

\* The lists s and t hold the same elements, each as many times.
IsRearrangement(s, t) ==
    /\ Len(s) = Len(t)
    /\ \A i \in 1..Len(s) :
          Cardinality({ k \in 1..Len(s) : s[k] = s[i] })
             = Cardinality({ k \in 1..Len(t) : t[k] = s[i] })

\* C11: two planSingleNetwork calls on the same parent whose request lists
\* are rearrangements of each other give the same set of (base address,
\* prefix) placements and the same leftover Available blocks.
C11_OrderIndependent ==
    \A i, j \in 1..Len(calls) :
        ( /\ networks[i].Network = networks[j].Network
          /\ IsRearrangement(networks[i].Subnets, networks[j].Subnets) ) =>
            /\ calls[i].err = calls[j].err
            /\ PlacementsOf(calls[i].results) = PlacementsOf(calls[j].results)
            /\ LeftoversOf(calls[i].results) = LeftoversOf(calls[j].results)

\* Both calls have returned, the second on the first's list rearranged so
\* that a smaller request comes before a larger one.
C11_Witness ==
    /\ Len(calls) = 2
    /\ networks[1].Network = networks[2].Network
    /\ IsRearrangement(networks[1].Subnets, networks[2].Subnets)
    /\ networks[2].Subnets # networks[1].Subnets
    /\ Cardinality(PlacementsOf(calls[1].results)) = 3
    /\ networks[2].Subnets[1].Hosts = 5
    /\ networks[1].Subnets[1].CIDR = 26

\* C12: every Assignment record's address lies in its own subnet's range
\* [base, base + size - 1]: a position that resolves outside it makes the
\* call fail instead of yielding such a record.
C12_AssignmentInsideSubnet ==
    \A i \in 1..Len(results) :
        results[i].Category = "Assignment" =>
            /\ WLe(BlockBase(results[i]), ipToUint32(results[i].IP[1]))
            /\ WLt(ipToUint32(results[i].IP[1]), BlockEnd(results[i]))

\* C13: planSingleNetwork leaves its input as it was: no step of a call
\* changes the caller's subnet lists or their IPAssignments lists.
C13_InputUnchanged ==
    [][(pc \in {"loop", "resolve", "allocate", "planned"}) => (networks' = networks)]_vars

\* main has resolved the final paths (it is past flag.Parse and did not
\* stop at a bare flag).
Resolved == pc \notin {"main"} /\ exitCode # 2

\* The formats main has called the exporter of, and the paths given to it.
Exported(format) ==
    { out[k].path : k \in { j \in 1..Len(out) :
                               out[j].ev = "export" /\ out[j].format = format } }

\* The Markdown flags ask for no export: the empty string is given to
\* -exportmd or to -md, and no file name to either.
MarkdownDisabled ==
    /\ Set("") \in { args.exportmd, args.md }
    /\ { args.exportmd, args.md } \subseteq { Unset, Set("") }

\* C14: with -exportmd="" (or the legacy -md="") the resolved Markdown path
\* is empty and ExportMarkdown is never called; the path is the default
\* plan.md only when neither flag is given.
C14_EmptyFlagDisablesMarkdown ==
    Resolved =>
        /\ MarkdownDisabled => (finalOut.md = "" /\ Exported("md") = {})
        /\ (args.exportmd = Unset /\ args.md = Unset) => finalOut.md = "plan.md"

\* The path a pair of flags names: the new flag's file name, else (the new
\* flag not given) the legacy flag's file name.
NamedBy(new, legacy) ==
    IF new.form = "value" /\ new.value # "" THEN { new.value }
    ELSE IF new = Unset /\ legacy.form = "value" /\ legacy.value # ""
    THEN { legacy.value }
    ELSE {}

\* C15: each final path is the file name of the new flag if that is given
\* one, and the legacy flag's file name if only the legacy flag is given;
\* the export of that format, when it runs, is written to that path (so
\* -md design.md alone writes design.md, not plan.md).
C15_LegacyFlagFallback ==
    Resolved =>
        /\ \A p \in NamedBy(args.exportjson, args.json) :
              finalOut.json = p /\ Exported("json") \subseteq { p }
        /\ \A p \in NamedBy(args.exportcsv, args.csv) :
              finalOut.csv = p /\ Exported("csv") \subseteq { p }
        /\ \A p \in NamedBy(args.exportmd, args.md) :
              finalOut.md = p /\ Exported("md") \subseteq { p }
        /\ (pc = "exit" /\ exitCode = 0 /\ ~args.version) =>
              /\ NamedBy(args.exportjson, args.json) \subseteq Exported("json")
              /\ NamedBy(args.exportcsv, args.csv) \subseteq Exported("csv")
              /\ NamedBy(args.exportmd, args.md) \subseteq Exported("md")

\* C16: when PlanSubnets returns an error main prints it and exits with
\* status 1, having printed no table and called no exporter; the table and
\* the exports come only after PlanSubnets returned without error, every
\* parent planned.
C16_NothingEmittedOnFailure ==
    /\ \A k \in 1..Len(out) :
          out[k].ev \in {"table", "export"} =>
              /\ pc \in {"exportjson", "exportcsv", "exportmd", "exit"}
              /\ err = NoError
              /\ Len(calls) = Len(networks)
              /\ \A j \in 1..Len(calls) : calls[j].err = NoError
    /\ (pc \in {"exportjson", "exportcsv", "exportmd", "exit"} /\ err # NoError) =>
          /\ pc = "exit"
          /\ exitCode = 1
          /\ out = << [ev |-> "stderr", msg |-> "planning error"] >>

\* The second parent failed, with all three exports asked for.
C16_Witness ==
    /\ pc = "exit" /\ err # NoError
    /\ Len(calls) = 2 /\ calls[1].results # << >>
    /\ finalOut.json = "out.json" /\ finalOut.csv = "out.csv"
    /\ finalOut.md = "report.md"
    /\ exitCode = 1

\* Two IPv4 CIDR literals of one prefix length whose addresses agree on the
\* bits of the prefix: they name the same network.
SameNetwork(l1, l2) ==
    /\ ~NotIPv4CIDR(l1) /\ ~NotIPv4CIDR(l2)
    /\ l1.bits = l2.bits
    /\ \A i \in 1..4 :
          l1.ip[i] \div (2 ^ (8 - MaskBits(l1.bits, i)))
             = l2.ip[i] \div (2 ^ (8 - MaskBits(l2.bits, i)))

\* The literal's address has bits set beyond its prefix.
HasHostBits(l) ==
    \E i \in 1..4 : l.ip[i] % (2 ^ (8 - MaskBits(l.bits, i))) # 0

\* C17: a parent literal with host bits set is never rejected as a bad
\* network, and two calls on literals of the same network with the same
\* requests (192.168.1.77/24 and 192.168.1.0/24) return the same records
\* and the same error.
C17_HostBitsMasked ==
    /\ (pc = "planned" /\ ~NotIPv4CIDR(network.Network)) =>
          planErr.kind \notin {"missing_network", "invalid_cidr"}
    /\ \A i, j \in 1..Len(calls) :
          ( /\ SameNetwork(networks[i].Network, networks[j].Network)
            /\ networks[i].Subnets = networks[j].Subnets ) =>
              calls[i] = calls[j]

\* Both calls have returned records, the first on 192.168.1.77/24 and the
\* second on 192.168.1.0/24.
C17_Witness ==
    /\ Len(calls) = 2
    /\ networks[1].Network = Lit4(192, 168, 1, 77, 24)
    /\ networks[2].Network = Lit4(192, 168, 1, 0, 24)
    /\ HasHostBits(networks[1].Network)
    /\ networks[1].Subnets = networks[2].Subnets
    /\ calls[1].err = NoError /\ Len(calls[1].results) > 3

\* C18: the prefix derived from a host count never grows with the count:
\* for host counts h1 <= h2, both positive, calculatePrefixFromHosts(h2)
\* <= calculatePrefixFromHosts(h1).  Checked of the prefix a call derived
\* for its single request against every host count up to MaxHosts, and
\* between the host-count requests of one list.
C18_PrefixMonotonic ==
    /\ (pc = "planned" /\ Len(network.Subnets) = 1) =>
          \A hp \in DerivedPrefixes : \A h \in 1..MaxHosts :
              IF h <= hp[1] THEN hp[2] <= calculatePrefixFromHosts(h)
                            ELSE calculatePrefixFromHosts(h) <= hp[2]
    /\ \A hp1, hp2 \in DerivedPrefixes : hp1[1] <= hp2[1] => hp2[2] <= hp1[2]

\* The largest host count has been sized, alone in its list, as a /1.
C18_Witness ==
    /\ pc = "planned" /\ Len(network.Subnets) = 1
    /\ << 2147483647, 1 >> \in DerivedPrefixes

\* The index in results of the k-th placed subnet's Network record.
NthPlaced(k) ==
    CHOOSE i \in PlacedIdx : Cardinality({ j \in PlacedIdx : j < i }) = k - 1

\* The sum of the block sizes of the first n sorted requests.
SizeBefore(n) ==
    WSum([k \in 1..n |-> WPow2(32 - requirements[k].prefix)])

\* C19: subnets are placed in non-increasing block-size order, the first
\* at the parent's base address, and each later one at the parent's base
\* plus the sum of the block sizes of all subnets placed before it.
C19_LargestFirstContiguous ==
    (pc = "allocate" \/ Planned) =>
        /\ \A k \in 1..(Len(requirements) - 1) :
              WLe(WPow2(32 - requirements[k + 1].prefix),
                  WPow2(32 - requirements[k].prefix))
        /\ Cardinality(PlacedIdx) = reqIdx - 1
        /\ \A k \in 1..Cardinality(PlacedIdx) :
              /\ results[NthPlaced(k)].Prefix = requirements[k].prefix
              /\ BlockBase(results[NthPlaced(k)])
                    = WAdd(ParentBase, SizeBefore(k - 1))

\* C20: the size sort keeps requests of equal block size in their input
\* order: after the sort, and so in the order of placement, of two
\* requests of one size the one listed first comes first.
C20_SortStable ==
    (pc = "allocate" \/ Planned) =>
        \A k, l \in 1..Len(requirements) :
            (k < l /\ requirements[k].size = requirements[l].size) =>
                requirements[k].src < requirements[l].src

\* The records of calculateAvailableSpace, in the order they were emitted.
LeftoverSeq ==
    SelectSeq(results,
              LAMBDA r : r.Category = "Available" /\ r.Name = "Available")

\* The blocks of the records `blocks`, in order, lie end to end from the
\* address `from` to the address `to`, in unbounded arithmetic.
RECURSIVE Tiles(_, _, _)
Tiles(blocks, from, to) ==
    IF blocks = << >> THEN from = to
    ELSE /\ BlockBase(blocks[1]) = from
         /\ Tiles(Tail(blocks), BlockEnd(blocks[1]), to)

\* The cursor after all requests are placed, in unbounded arithmetic.
CursorAfterRequests == WAdd(ParentBase, RequestedSize)

\* C21: when planSingleNetwork returns without error and the requests fit
\* the parent, the Available records lie end to end from the cursor to the
\* parent's end address parentBase + 2^(32-parentPrefix), so every address
\* between the two is reported; this includes a parent whose end address
\* is 2^32 and a parent of prefix 0.
C21_LeftoverReported ==
    (Planned /\ WLe(RequestedSize, ParentSize)) =>
        Tiles(LeftoverSeq, CursorAfterRequests, ParentEnd)

\* The size of the k-th block of calculateAvailableSpace called on its own:
\* the distance from its base to the next block's base (to the cursor for
\* the last block), whatever prefix its record shows.
SizeAt(k) ==
    WSub(IF k < Len(results) THEN BlockBase(results[k + 1]) ELSE current,
         BlockBase(results[k]))

\* 2^j divides the address a (every address is below 2^32).
Pow2Divides(j, a) == U32ModPow2(a, WPow2(j)) = U32Zero

\* The largest power of two that divides the address `base` and is at most
\* `remaining`, 1 <= remaining < 2^32.
LargestAlignedFit(base, remaining) ==
    LET Fits(j) == Pow2Divides(j, base) /\ WLe(WPow2(j), remaining)
        top     == CHOOSE j \in 0..31 :
                       Fits(j) /\ \A k \in (j + 1)..31 : ~Fits(k)
    IN  WPow2(top)

\* C22: calculateAvailableSpace(start, end) with start < end returns, and
\* its blocks, left to right, lie end to end from start to end, each of the
\* largest power-of-two size that divides the block's own start address and
\* does not exceed what remains up to end.
C22_MinimalDecomposition ==
    /\ pc # "panic"
    /\ pc \in {"space", "returned"} =>
          /\ Tiles(results, start, current)
          /\ \A k \in 1..Len(results) :
                SizeAt(k) = LargestAlignedFit(BlockBase(results[k]),
                                              WSub(end, BlockBase(results[k])))
    /\ pc = "returned" => current = end

\* C23: every block emitted by calculateAvailableSpace has a base address
\* that is a multiple of the block's size, and the prefix its record shows
\* is 32 - log2(size), for every start < end.
C23_BlocksAligned ==
    pc \in {"space", "returned"} =>
        \A k \in 1..Len(results) :
            /\ \E j \in 0..31 :
                  /\ SizeAt(k) = WPow2(j)
                  /\ Pow2Divides(j, BlockBase(results[k]))
                  /\ results[k].Prefix = 32 - j
            /\ results[k].Subnet.bits = results[k].Prefix

\* A call has returned blocks of three sizes or more, the first not at the
\* bottom of the address space.
C23_Witness ==
    /\ pc = "returned"
    /\ start # U32Zero
    /\ Cardinality({results[k].Prefix : k \in 1..Len(results)}) >= 3

\* A step of the allocation loop that places a subnet, and the records it
\* appends.
PlacesSubnet == pc = "allocate" /\ reqIdx' = reqIdx + 1
NewRecords == SubSeq(results', Len(results) + 1, Len(results'))

\* The offset from a subnet's base that a position stands for in a subnet of
\* a prefix below 32.
PositionOffset(prefix, position) ==
    IF position >= 0 THEN position
    ELSE IF prefix = 31 THEN 2 ^ (32 - prefix) + position
    ELSE 2 ^ (32 - prefix) - 1 + position

\* C24: in the records of a placed subnet, an assignment of positive
\* position N shows the address base + N, one of position 0 the base
\* (network) address, and one of negative position p the address
\* base + size - 1 + p when prefix < 31 and base + size + p when prefix = 31
\* (addresses are 32-bit values).
C24_PositionResolution ==
    [][PlacesSubnet =>
         LET req  == requirements[reqIdx]
             as   == req.subnet.IPAssignments
             new  == NewRecords
             base == ipToUint32(new[1].IP[1])
         IN  \A k \in 1..Len(as) :
                (as[k].Position >= 0 \/ req.prefix < 32) =>
                   \E j \in 1..Len(new) :
                      /\ new[j].Category = "Assignment"
                      /\ new[j].Label = as[k].Name
                      /\ new[j].IP =
                           << uint32ToIP(U32Add(base,
                                 U32FromInt(PositionOffset(req.prefix,
                                                           as[k].Position)))) >>
                      /\ \A i \in 1..Len(new) :
                            (new[i].Category = "Assignment"
                             /\ new[i].Label = as[k].Name) => i = j]_vars

\* Position -4 in 10.60.48.128/26 has been resolved to 10.60.48.187.
C24_Witness ==
    \E i \in 1..Len(results) :
          /\ results[i].Subnet = CIDRString(<< 10, 60, 48, 128 >>, 26)
          /\ results[i].Label = "Last"
          /\ results[i].IP = << << 10, 60, 48, 187 >> >>

\* C25: in the records of a placed /32 subnet, an assignment of position 0
\* and one of position 1 both show the subnet's single (base) address.
C25_Slash32Positions ==
    [][(PlacesSubnet /\ requirements[reqIdx].prefix = 32) =>
         LET as  == requirements[reqIdx].subnet.IPAssignments
             new == NewRecords
         IN  \A k \in 1..Len(as) :
                as[k].Position \in {0, 1} =>
                   \A j \in 1..Len(new) :
                      (new[j].Category = "Assignment"
                       /\ new[j].Label = as[k].Name) =>
                          new[j].IP = new[1].IP]_vars

\* The whole-number value of a wide number below 2^31.
WToInt(w) == w[1] * Half + w[2]

\* C26: in the records of a placed subnet with assignments and prefix < 31,
\* the Unused and Unused Range records are exactly the maximal runs of
\* consecutive host addresses base+1 .. base+size-2 that no Assignment
\* record shows: one record per run and no other, so they are disjoint,
\* not adjacent, hold no assigned, network or broadcast address and hold
\* every unassigned host address; a run of one address is labelled Unused
\* and shown as that address, a longer one Unused Range and shown as its
\* first and last address; the record's count is the run's length.
C26_UnusedAreMaximalRuns ==
    [][(/\ PlacesSubnet
        /\ requirements[reqIdx].prefix < 31
        /\ Len(requirements[reqIdx].subnet.IPAssignments) > 0) =>
         LET new      == NewRecords
             size     == 2 ^ (32 - requirements[reqIdx].prefix)
             base     == ipToUint32(new[1].IP[1])
             Addr(i)  == U32Add(base, WFromInt(i))
             assigned == { ipToUint32(new[j].IP[1]) :
                             j \in { i \in 1..Len(new) :
                                        new[i].Category = "Assignment" } }
             Free(i)  == Addr(i) \notin assigned
             unused   == { j \in 1..Len(new) : new[j].Category = "Unused" }
             RunOf(j) == << WToInt(WSub(ipToUint32(new[j].IP[1]), base)),
                            WToInt(WSub(ipToUint32(new[j].IP[Len(new[j].IP)]),
                                        base)) >>
         IN  /\ \A j \in unused :
                  /\ WLe(base, ipToUint32(new[j].IP[1]))
                  /\ WLe(ipToUint32(new[j].IP[1]),
                         ipToUint32(new[j].IP[Len(new[j].IP)]))
                  /\ 1 <= RunOf(j)[1] /\ RunOf(j)[2] <= size - 2
                  /\ \A i \in RunOf(j)[1]..RunOf(j)[2] : Free(i)
                  /\ RunOf(j)[1] = 1 \/ ~Free(RunOf(j)[1] - 1)
                  /\ RunOf(j)[2] = size - 2 \/ ~Free(RunOf(j)[2] + 1)
                  /\ new[j].Label = (IF Len(new[j].IP) = 1 THEN "Unused"
                                                            ELSE "Unused Range")
                  /\ Len(new[j].IP) = 1 <=> RunOf(j)[1] = RunOf(j)[2]
                  /\ new[j].TotalIPs = WFromInt(RunOf(j)[2] - RunOf(j)[1] + 1)
             /\ \A i \in 1..(size - 2) :
                  Free(i) => \E j \in unused :
                                 RunOf(j)[1] <= i /\ i <= RunOf(j)[2]
             /\ \A j, k \in unused : RunOf(j) = RunOf(k) => j = k]_vars

\* A subnet has been placed whose records show a run of one unused address
\* and a run of several.
C26_Witness ==
    \E i, j \in 1..Len(results) :
        /\ results[i].Subnet = results[j].Subnet
        /\ results[i].Label = "Unused"
        /\ results[j].Label = "Unused Range"

Shows(r, label, category, addrs, count) ==
    /\ r.Label = label
    /\ r.Category = category
    /\ r.IP = [k \in 1..Len(addrs) |-> uint32ToIP(addrs[k])]
    /\ r.TotalIPs = count

\* C28: the records of a placed subnet without assignments are, for
\* prefix < 31, exactly three: Network (the base address), Available or
\* Available Range covering base+1 .. base+size-2 with count size-2, and
\* Broadcast (base+size-1); for a /31 exactly two: Network and an Available
\* Range of both addresses with count 2; for a /32 exactly two: Network and
\* Available of the single address with count 1.  A /31 and a /32 have no
\* Broadcast record.
C28_BasicEntries ==
    [][(PlacesSubnet /\ Len(requirements[reqIdx].subnet.IPAssignments) = 0) =>
         LET prefix == requirements[reqIdx].prefix
             new    == NewRecords
             base   == currentIP
             size   == WPow2(32 - prefix)
             One    == WFromInt(1)
             last   == WSub(WAdd(base, size), One)
         IN  /\ Shows(new[1], "Network", "Network", << base >>, One)
             /\ IF prefix < 31 THEN
                    /\ Len(new) = 3
                    /\ Shows(new[2],
                             IF size = WFromInt(3) THEN "Available"
                                                   ELSE "Available Range",
                             "Available",
                             IF size = WFromInt(3)
                             THEN << WAdd(base, One) >>
                             ELSE << WAdd(base, One), WSub(last, One) >>,
                             WSub(size, WFromInt(2)))
                    /\ Shows(new[3], "Broadcast", "Broadcast", << last >>, One)
                ELSE IF prefix = 31 THEN
                    /\ Len(new) = 2
                    /\ Shows(new[2], "Available Range", "Available",
                             << base, WAdd(base, One) >>, WFromInt(2))
                ELSE
                    /\ Len(new) = 2
                    /\ Shows(new[2], "Available", "Available", << base >>, One)]_vars

\* A /26 and a /32 without assignments have been placed one after the
\* other: three records and then two.
C28_Witness ==
    /\ Len(results) >= 5
    /\ results[1].Prefix = 26 /\ results[1].Label = "Network"
    /\ results[2].Label = "Available Range"
    /\ results[3].Label = "Broadcast"
    /\ results[4].Prefix = 32 /\ results[4].Label = "Network"
    /\ results[5].Prefix = 32 /\ results[5].Label = "Available"

\* planSingleNetwork has returned from parent 192.168.1.0/24 with the
\* single request {hosts: 50}.
Scenario1Planned ==
    /\ Planned
    /\ network.Network = Lit4(192, 168, 1, 0, 24)
    /\ Len(network.Subnets) = 1
    /\ network.Subnets[1].Hosts = 50
    /\ network.Subnets[1].CIDR = 0
    /\ network.Subnets[1].IPAssignments = << >>

\* The /26 placed at 192.168.1.0: Network, usable range, Broadcast.
Scenario1Subnet ==
    /\ Len(results) >= 3
    /\ \A i \in 1..3 : /\ results[i].Subnet = CIDRString(<< 192, 168, 1, 0 >>, 26)
                       /\ results[i].Prefix = 26
    /\ Shows(results[1], "Network", "Network",
             << ipToUint32(<< 192, 168, 1, 0 >>) >>, WFromInt(1))
    /\ Shows(results[2], "Available Range", "Available",
             << ipToUint32(<< 192, 168, 1, 1 >>),
                ipToUint32(<< 192, 168, 1, 62 >>) >>, WFromInt(62))
    /\ Shows(results[3], "Broadcast", "Broadcast",
             << ipToUint32(<< 192, 168, 1, 63 >>) >>, WFromInt(1))

\* C29 as stated: planning 192.168.1.0/24 with the single request
\* {hosts: 50} gives the /26 at 192.168.1.0 (Network 192.168.1.0, usable
\* range 192.168.1.1 - 192.168.1.62 with count 62, Broadcast 192.168.1.63)
\* followed by one Available block, 192.168.1.64/26, that covers the rest of
\* the parent.
C29_Scenario1AsStated ==
    Scenario1Planned =>
        /\ Scenario1Subnet
        /\ Len(results) = 4
        /\ results[4].Subnet = CIDRString(<< 192, 168, 1, 64 >>, 26)
        /\ results[4].Category = "Available"
        /\ BlockEnd(results[4]) = ParentEnd

\* C29 amended: planning 192.168.1.0/24 with the single request
\* {hosts: 50} gives the /26 at 192.168.1.0 (Network 192.168.1.0, usable
\* range 192.168.1.1 - 192.168.1.62 with count 62, Broadcast 192.168.1.63)
\* followed by two Available blocks, 192.168.1.64/26 and 192.168.1.128/25,
\* which together cover the rest of the parent.
C29_Scenario1 ==
    Scenario1Planned =>
        /\ Scenario1Subnet
        /\ Len(results) = 5
        /\ results[4].Subnet = CIDRString(<< 192, 168, 1, 64 >>, 26)
        /\ results[4].Prefix = 26
        /\ Shows(results[4], "Available Range", "Available",
                 << ipToUint32(<< 192, 168, 1, 65 >>),
                    ipToUint32(<< 192, 168, 1, 126 >>) >>, WFromInt(62))
        /\ results[5].Subnet = CIDRString(<< 192, 168, 1, 128 >>, 25)
        /\ results[5].Prefix = 25
        /\ Shows(results[5], "Available Range", "Available",
                 << ipToUint32(<< 192, 168, 1, 129 >>),
                    ipToUint32(<< 192, 168, 1, 254 >>) >>, WFromInt(126))
        /\ Tiles(SubSeq(results, 4, 5), BlockEnd(results[1]), ParentEnd)

\* The scenario has been planned and its records returned.
C29_Witness == Scenario1Planned /\ Len(results) = 5 /\ LeftoverSeq # << >>

\* C30: calculateAvailableSpace returns normally for every start < end: no
\* iteration faults (also when the candidate block size reaches 2^31 and
\* its double is 0 in 32 bits), and each iteration moves the cursor up by
\* the size of the block it emits, to a value that is at most end, until
\* the cursor is end.
C30_ReturnsNormally ==
    /\ pc # "panic"
    /\ pc \in {"space", "returned"} =>
          /\ WLe(start, current) /\ WLe(current, end)
          /\ current = IF results = << >> THEN start
                       ELSE BlockEnd(results[Len(results)])
    /\ pc = "returned" => current = end

====
